---- MODULE Spec2Model ----
(***************************************************************************)
(* A model of permchain.pregel.Pregel: the step loop of _transform (thread *)
(* flavor) and _atransform (asyncio flavor) and the planner                *)
(* _apply_writes_and_prepare_next_tasks.                                   *)
(*                                                                         *)
(* Encoding of Python values:                                              *)
(*   - a channel is the sequence of values it holds: <<>> is the empty     *)
(*     channel (get raises EmptyChannelError), <<v>> a LastValue or an     *)
(*     Accumulator holding v, <<v1, .., vn>> a Topic holding that list;    *)
(*   - a dict is the sequence of its <<key, value>> pairs in insertion     *)
(*     order; the key None is the string "None";                           *)
(*   - a write is [chan, val, obj]: obj is TRUE when the channel name is   *)
(*     the very str object given as output= (what `is` compares), FALSE    *)
(*     when it is another object (equal or not).                           *)
(* User processes are outside the repository: a running task is an         *)
(* environment that may send, read, return, raise, or never finish.        *)
(***************************************************************************)
EXTENDS Integers, Sequences, FiniteSets, TLC

\* ---------------------------------------------------------------- bounds
MaxLimit == 2        \* largest config["recursion_limit"] explored
MaxChunks == 1       \* longest input iterator explored
MaxWrites == 2       \* most writes buffered in one step's pending_writes
MaxWorkers == 2      \* largest worker pool explored (thread flavor)

Vals == {1, 2}

\* ------------------------------------------------------------- topology
\* self.channels: the registered channel names, with their reduction.
Registry == {"in", "mid", "out"}

\* The reduction discipline of each registered channel.
ChannelKind(c) ==
    IF c = "mid" THEN "Topic"
    ELSE IF c = "out" THEN "Accumulator"
    ELSE "LastValue"

None == "None"

\* self.chains: an Invoke on one keyless channel, an Invoke on two keyed
\* channels, and a Batch with a key. sink holds the writes the process's
\* PregelSink (send_to) can send: one names a channel that is not registered,
\* and the third process names "out" by a str equal to self.output that is
\* not the same object (a name built at run time, not an interned literal).
processes ==
    << [kind |-> "PregelInvoke", channels |-> << <<None, "in">> >>,
        channel |-> None, key |-> None,
        sink |-> {[chan |-> "mid", val |-> 1, obj |-> FALSE],
                  [chan |-> "mid", val |-> 2, obj |-> FALSE],
                  [chan |-> "ghost", val |-> 1, obj |-> FALSE]}],
       [kind |-> "PregelInvoke", channels |-> << <<"x", "in">>, <<"y", "mid">> >>,
        channel |-> None, key |-> None,
        sink |-> {[chan |-> "out", val |-> 1, obj |-> TRUE]}],
       [kind |-> "PregelBatch", channels |-> <<>>,
        channel |-> "mid", key |-> "k",
        sink |-> {[chan |-> "in", val |-> 1, obj |-> FALSE],
                  [chan |-> "out", val |-> 2, obj |-> FALSE]}] >>

Procs == 1..Len(processes)

\* The channel names a process subscribes to.
Subscribed(p) ==
    IF processes[p].kind = "PregelInvoke"
    THEN {processes[p].channels[i][2] : i \in 1..Len(processes[p].channels)}
    ELSE {processes[p].channel}

VARIABLES
    flavor,            \* "thread" (_transform) or "async" (_atransform)
    recursion_limit,   \* config["recursion_limit"]
    step_timeout,      \* TRUE when self.step_timeout is not None
    max_workers,       \* size of the executor's worker pool (thread flavor)
    self_input,        \* self.input:  [isStr, names]
    self_output,       \* self.output: [isStr, names]
    input,             \* the input iterator: a sequence of chunks
    channels,          \* the registry: name -> sequence of held values
    next_tasks,        \* sequence of [proc, input]
    step,              \* the loop variable
    pending_writes,    \* the current step's deque of writes
    task,              \* proc -> state of its future in the current step
    done,              \* the set `done` returned by wait, while it is popped
    inflight,          \* the set `inflight` returned by wait, while it is popped
    pc,                \* the coordinator's position
    outcome,           \* how the run ended
    exc,               \* the task whose exception was raised, 0 when none
    errStep,           \* the step named by the TimeoutError, -1 when none
    yielded,           \* the outputs yielded so far
    \* history variables, written but never read by the program
    applied,           \* the writes handed to the planner's latest call
    updateLog,         \* the update calls of the planner's latest call
    boundaries,        \* the number of planner calls so far
    nsteps,            \* the number of iterations that reached wait
    taskStep,          \* CONFIG_KEY_STEP injected into the current tasks
    firstFailed,       \* the task that raised first in the current step, 0 when none
    cancelReq,         \* the tasks whose cancel() was called
    inflight0,         \* `inflight` as wait returned it
    stepChans,         \* the channels when the current tasks were submitted
    seedReady,         \* whether the planner's first call returned a task
    lastEmit,          \* what the current step has yielded: <<>> or <<value>>
    teardowns,         \* the number of times the ChannelsManager scope was exited
    latest             \* invoke's local `latest`: <<>> is None, <<v>> the chunk v

vars == <<flavor, recursion_limit, step_timeout, max_workers, self_input,
          self_output, input, channels, next_tasks, step, pending_writes,
          task, done, inflight, pc, outcome, exc, errStep, yielded, applied,
          updateLog, boundaries, nsteps, taskStep, firstFailed, cancelReq,
          inflight0, stepChans, seedReady, lastEmit, teardowns, latest>>

config == <<flavor, recursion_limit, step_timeout, max_workers, self_input,
            self_output, input>>

\* --------------------------------------------------------------- channels
RECURSIVE Sum(_)
Sum(vals) == IF vals = <<>> THEN 0 ELSE Head(vals) + Sum(Tail(vals))

\* Channel.update(vals): LastValue keeps the last write, Topic the list of
\* the step's writes, Accumulator the sum of all the writes ever made.
Update(c, cur, vals) ==
    IF ChannelKind(c) = "LastValue" THEN <<vals[Len(vals)]>>
    ELSE IF ChannelKind(c) = "Topic" THEN vals
    ELSE <<(IF cur = <<>> THEN 0 ELSE cur[1]) + Sum(vals)>>

\* Channel.get() raises EmptyChannelError on a channel never updated.
IsEmpty(chs, c) == chs[c] = <<>>

\* ---------------------------------------------------------------- planner
\* A planner that does not group: one update call per write.
RECURSIVE GroupWritesOneByOne(_, _)
GroupWritesOneByOne(ws, acc) ==
    IF ws = <<>> THEN acc
    ELSE GroupWritesOneByOne(Tail(ws),
             Append(acc, [chan |-> Head(ws).chan, vals |-> <<Head(ws).val>>]))

\* A grouping that keeps only the latest write of each channel.
RECURSIVE GroupWritesLatestOnly(_, _)
GroupWritesLatestOnly(ws, acc) ==
    IF ws = <<>> THEN acc
    ELSE LET w == Head(ws)
             at == {i \in 1..Len(acc) : acc[i].chan = w.chan}
         IN IF at = {}
            THEN GroupWritesLatestOnly(Tail(ws),
                     Append(acc, [chan |-> w.chan, vals |-> <<w.val>>]))
            ELSE LET i == CHOOSE i \in at : TRUE
                 IN GroupWritesLatestOnly(Tail(ws),
                        [acc EXCEPT ![i].vals = <<w.val>>])

\* for chan, val in pending_writes: pending_writes_by_channel[chan].append(val)
\* The dict keeps its keys in the order of their first write.
RECURSIVE GroupWrites(_, _)
GroupWrites(ws, acc) ==
    IF ws = <<>> THEN acc
    ELSE LET w == Head(ws)
             at == {i \in 1..Len(acc) : acc[i].chan = w.chan}
         IN IF at = {}
            THEN GroupWrites(Tail(ws),
                     Append(acc, [chan |-> w.chan, vals |-> <<w.val>>]))
            ELSE LET i == CHOOSE i \in at : TRUE
                 IN GroupWrites(Tail(ws),
                        [acc EXCEPT ![i].vals = Append(@, w.val)])

\* A planner that gives up at the first name that is not registered.
RECURSIVE ApplyGroupsStrict(_, _)
ApplyGroupsStrict(groups, st) ==
    IF groups = <<>> THEN st
    ELSE LET g == Head(groups)
         IN IF g.chan \in Registry
            THEN ApplyGroupsStrict(Tail(groups),
                     [chs |-> [st.chs EXCEPT ![g.chan] = Update(g.chan, @, g.vals)],
                      updated |-> st.updated \cup {g.chan},
                      log |-> Append(st.log, g)])
            ELSE st

\* for chan, vals in pending_writes_by_channel.items(): update or warn.
\* st is [chs, updated, log]: the registry, updated_channels, the update calls.
RECURSIVE ApplyGroups(_, _)
ApplyGroups(groups, st) ==
    IF groups = <<>> THEN st
    ELSE LET g == Head(groups)
         IN IF g.chan \in Registry
            THEN ApplyGroups(Tail(groups),
                     [chs |-> [st.chs EXCEPT ![g.chan] = Update(g.chan, @, g.vals)],
                      updated |-> st.updated \cup {g.chan},
                      log |-> Append(st.log, g)])
            ELSE ApplyGroups(Tail(groups), st)

\* {k: channels[chan].get() for k, chan in proc.channels.items()}
InvokeVal(chs, p) ==
    [i \in 1..Len(processes[p].channels) |->
        <<processes[p].channels[i][1], chs[processes[p].channels[i][2]]>>]

\* A planner that runs every process whose channels are all initialized,
\* whether or not one of them was written.
InvokeReadyUnwoken(chs, updated, p) ==
    \A i \in 1..Len(processes[p].channels) :
        ~IsEmpty(chs, processes[p].channels[i][2])

\* any(chan in updated_channels for chan in proc.channels.values()), and the
\* reads of the try block all succeed.
InvokeReady(chs, updated, p) ==
    /\ \E i \in 1..Len(processes[p].channels) :
           processes[p].channels[i][2] \in updated
    /\ \A i \in 1..Len(processes[p].channels) :
           ~IsEmpty(chs, processes[p].channels[i][2])

\* list(proc.channels.keys()) == [None] passes the value itself.
InvokeInput(chs, p) ==
    IF [i \in 1..Len(processes[p].channels) |-> processes[p].channels[i][1]]
           = <<None>>
    THEN InvokeVal(chs, p)[1][2]
    ELSE InvokeVal(chs, p)

\* proc.channel in updated_channels. The get that follows is not guarded: a
\* channel just updated holds a value.
BatchReady(updated, p) == processes[p].channel \in updated

\* val = channels[proc.channel].get(); [{proc.key: v} for v in val]
BatchInput(chs, p) ==
    LET val == chs[processes[p].channel]
    IN IF processes[p].key # None
       THEN [i \in 1..Len(val) |-> <<processes[p].key, val[i]>>]
       ELSE val

Ready(chs, updated, p) ==
    IF processes[p].kind = "PregelInvoke"
    THEN InvokeReady(chs, updated, p)
    ELSE BatchReady(updated, p)

TaskInput(chs, p) ==
    IF processes[p].kind = "PregelInvoke"
    THEN InvokeInput(chs, p)
    ELSE BatchInput(chs, p)

\* for proc in processes: ... tasks.append((proc, val))
RECURSIVE PrepareTasks(_, _, _)
PrepareTasks(chs, updated, p) ==
    IF p > Len(processes) THEN <<>>
    ELSE IF Ready(chs, updated, p)
         THEN <<[proc |-> p, input |-> TaskInput(chs, p)]>>
                  \o PrepareTasks(chs, updated, p + 1)
         ELSE PrepareTasks(chs, updated, p + 1)

\* _apply_writes_and_prepare_next_tasks(processes, channels, pending_writes)
ApplyWritesAndPrepareNextTasks(chs, writes) ==
    LET st == ApplyGroups(GroupWrites(writes, <<>>),
                          [chs |-> chs, updated |-> {}, log |-> <<>>])
    IN [chs |-> st.chs, updated |-> st.updated, log |-> st.log,
        tasks |-> PrepareTasks(st.chs, st.updated, 1)]

\* ------------------------------------------------------------------ inputs
\* self.input is a channel name or a sequence of names; likewise self.output.
SingleInput == [isStr |-> TRUE, names |-> {"in"}]
RecordInput == [isStr |-> FALSE, names |-> {"in", "mid"}]
SingleOutput == [isStr |-> TRUE, names |-> {"out"}]
RecordOutput == [isStr |-> FALSE, names |-> {"mid", "out"}]

SeqsUpTo(S, n) == UNION {[1..k -> S] : k \in 0..n}

\* The chunks of record-source mode: dicts of at most two entries, whose keys
\* may include one that self.input does not name.
ChunkKeys == {"in", "mid", "other"}
RecordChunks ==
    {c \in SeqsUpTo(ChunkKeys \X Vals, 2) :
        \A i, j \in 1..Len(c) : i # j => c[i][1] # c[j][1]}

\* deque((self.input, chunk) for chunk in input), or
\* deque((k, v) for chunk in input for k, v in chunk.items() if k in self.input)
RECURSIVE FilterItems(_, _)
FilterItems(chunk, names) ==
    IF chunk = <<>> THEN <<>>
    ELSE IF Head(chunk)[1] \in names
         THEN <<[chan |-> Head(chunk)[1], val |-> Head(chunk)[2], obj |-> FALSE]>>
                  \o FilterItems(Tail(chunk), names)
         ELSE FilterItems(Tail(chunk), names)

RECURSIVE SeedWrites(_, _)
SeedWrites(inp, chunks) ==
    IF chunks = <<>> THEN <<>>
    ELSE IF inp.isStr
         THEN <<[chan |-> "in", val |-> Head(chunks), obj |-> FALSE]>>
                  \o SeedWrites(inp, Tail(chunks))
         ELSE FilterItems(Head(chunks), inp.names) \o SeedWrites(inp, Tail(chunks))

\* ------------------------------------------------------------------- Init
Init ==
    /\ flavor \in {"thread", "async"}
    /\ recursion_limit \in 0..MaxLimit
    /\ step_timeout \in BOOLEAN
    /\ max_workers \in 1..MaxWorkers
    /\ flavor = "async" => max_workers = 1
    /\ \/ self_input = SingleInput /\ self_output = SingleOutput
       \/ self_input = RecordInput /\ self_output = RecordOutput
    /\ IF self_input.isStr
       THEN input \in SeqsUpTo(Vals, MaxChunks)
       ELSE input \in SeqsUpTo(RecordChunks, MaxChunks)
    /\ channels = [c \in Registry |-> <<>>]
    /\ next_tasks = <<>>
    /\ step = 0
    /\ pending_writes = <<>>
    /\ task = [p \in Procs |-> "none"]
    /\ done = {}
    /\ inflight = {}
    /\ pc = "seed"
    /\ outcome = "running"
    /\ exc = 0
    /\ errStep = -1
    /\ yielded = <<>>
    /\ applied = <<>>
    /\ updateLog = <<>>
    /\ boundaries = 0
    /\ nsteps = 0
    /\ taskStep = -1
    /\ firstFailed = 0
    /\ cancelReq = {}
    /\ inflight0 = {}
    /\ stepChans = [c \in Registry |-> <<>>]
    /\ seedReady = FALSE
    /\ lastEmit = <<>>
    /\ teardowns = 0
    /\ latest = <<>>

\* ------------------------------------------------------------ coordinator
Scheduled == {next_tasks[i].proc : i \in 1..Len(next_tasks)}

Finished == {p \in Procs : task[p] \in {"ok", "failed"}}

history == <<firstFailed, cancelReq, seedReady, lastEmit>>

\* The first planner call, on the writes built from the input iterator.
Seed ==
    /\ pc = "seed"
    /\ LET writes == SeedWrites(self_input, input)
           r == ApplyWritesAndPrepareNextTasks(channels, writes)
       IN /\ channels' = r.chs
          /\ next_tasks' = r.tasks
          /\ applied' = writes
          /\ updateLog' = r.log
          /\ seedReady' = (r.tasks # <<>>)
    /\ input' = <<>>
    /\ boundaries' = boundaries + 1
    /\ pc' = "loop"
    /\ UNCHANGED <<teardowns, latest, flavor, recursion_limit, step_timeout, max_workers,
                   self_input, self_output, step, pending_writes, task, done,
                   inflight, outcome, exc, errStep, yielded, nsteps, taskStep,
                   inflight0, stepChans, firstFailed, cancelReq, lastEmit>>

\* A run that leaves its frame without leaving the scopes it entered.
LeaveScopesSkipped == "done"

\* with ChannelsManager(self.channels) as channels, get_executor_for_config(
\* config) as executor: a return or a raise inside the block leaves the
\* scopes innermost first, the executor's and then the registry's; the
\* async flavor has the registry's scope only.
LeaveScopes == IF flavor = "thread" THEN "exit_executor" ELSE "exit_channels"

\* asyncio.wait raises ValueError on an empty list of tasks;
\* concurrent.futures.wait returns two empty sets.
WaitRejectsEmpty == flavor = "async" /\ next_tasks = <<>>

\* executor.submit queues the call for a worker of the pool. The tasks made
\* by asyncio.create_task all take their first step in the loop iteration
\* that follows the await, before wait can return: none is cancelled unstarted.
Submitted == IF flavor = "thread" THEN "queued" ELSE "running"

\* A loop that runs one iteration too many.
InRangeInclusive(k) == k <= recursion_limit

\* for step in range(config["recursion_limit"]): whether the range holds k.
InRange(k) == k < recursion_limit

\* for step in range(config["recursion_limit"]): a fresh pending_writes, and
\* one future per entry of next_tasks, submitted by the call of wait.
Submit ==
    /\ pc = "loop"
    /\ InRange(step)
    /\ ~WaitRejectsEmpty
    /\ pending_writes' = <<>>
    /\ task' = [p \in Procs |-> IF p \in Scheduled THEN Submitted ELSE "none"]
    /\ taskStep' = step
    /\ stepChans' = channels
    /\ nsteps' = nsteps + 1
    /\ firstFailed' = 0
    /\ cancelReq' = {}
    /\ lastEmit' = <<>>
    /\ inflight0' = {}
    /\ applied' = <<>>
    /\ updateLog' = <<>>
    /\ pc' = "wait"
    /\ UNCHANGED <<teardowns, latest, config, channels, next_tasks, step, done, inflight, outcome,
                   exc, errStep, yielded, boundaries, seedReady>>

\* The async flavor's wait on no task: the ValueError leaves the run.
SubmitNothing ==
    /\ pc = "loop"
    /\ InRange(step)
    /\ WaitRejectsEmpty
    /\ pending_writes' = <<>>
    /\ pc' = LeaveScopes
    /\ outcome' = "ValueError"
    /\ UNCHANGED <<teardowns, latest, config, channels, next_tasks, step, task, done, inflight,
                   exc, errStep, yielded, applied, updateLog, boundaries,
                   nsteps, taskStep, inflight0, stepChans, history>>

\* An engine that treats the exhausted range as an error.
ExhaustRaises ==
    /\ pc = "loop"
    /\ ~InRange(step)
    /\ pc' = LeaveScopes
    /\ outcome' = IF next_tasks # <<>> THEN "RecursionError" ELSE "returned"
    /\ UNCHANGED <<teardowns, latest, config, channels, next_tasks, step,
                   pending_writes, task, done, inflight, exc, errStep, yielded,
                   applied, updateLog, boundaries, nsteps, taskStep, inflight0,
                   stepChans, history>>

\* The range is exhausted: the generator returns.
Exhaust ==
    /\ pc = "loop"
    /\ ~InRange(step)
    /\ pc' = LeaveScopes
    /\ outcome' = "returned"
    /\ UNCHANGED <<teardowns, latest, config, channels, next_tasks, step, pending_writes, task,
                   done, inflight, exc, errStep, yielded, applied, updateLog,
                   boundaries, nsteps, taskStep, inflight0, stepChans,
                   history>>

\* wait(..., return_when=FIRST_EXCEPTION, timeout=self.step_timeout) returns
\* once every future is finished, or one has raised, or the timeout elapsed;
\* done holds the futures finished when the coordinator resumes.
WaitReturns ==
    /\ pc = "wait"
    /\ \/ Scheduled \subseteq Finished
       \/ \E p \in Scheduled : task[p] = "failed"
       \/ step_timeout
    /\ done' = Scheduled \cap Finished
    /\ inflight' = Scheduled \ Finished
    /\ inflight0' = Scheduled \ Finished
    /\ pc' = "popdone"
    /\ UNCHANGED <<teardowns, latest, config, channels, next_tasks, step, pending_writes, task,
                   outcome, exc, errStep, yielded, applied, updateLog,
                   boundaries, nsteps, taskStep, stepChans, history>>

\* The caller's task is cancelled while _atransform is suspended in
\* `await asyncio.wait(...)`: CancelledError is raised there. asyncio.wait
\* does not cancel the futures it was given, and no handler surrounds it.
CallerCancelled ==
    /\ flavor = "async"
    /\ pc = "wait"
    /\ pc' = LeaveScopes
    /\ outcome' = "CancelledError"
    /\ UNCHANGED <<teardowns, latest, config, channels, next_tasks, step,
                   pending_writes, task, done, inflight, exc, errStep, yielded,
                   applied, updateLog, boundaries, nsteps, taskStep, inflight0,
                   stepChans, history>>

\* while done: if exc := done.pop().exception(): ...
\* set.pop removes an arbitrary element, so the loop stops at any one of
\* the failed futures of done; the futures it reads are finished, so no
\* task interferes with it.
PopDone ==
    /\ pc = "popdone"
    /\ \E d \in {p \in done : task[p] = "failed"} :
          /\ exc' = d
          /\ done' = {}
          /\ pc' = "cancel_exc"
    /\ UNCHANGED <<teardowns, latest, config, channels, next_tasks, step, pending_writes, task,
                   inflight, outcome, errStep, yielded, applied, updateLog,
                   boundaries, nsteps, taskStep, inflight0, stepChans,
                   history>>

\* A loop that empties done without looking at the exceptions.
DoneDropped ==
    /\ pc = "popdone"
    /\ done' = {}
    /\ pc' = "inflight"
    /\ UNCHANGED <<teardowns, latest, config, channels, next_tasks, step,
                   pending_writes, task, inflight, outcome, exc, errStep,
                   yielded, applied, updateLog, boundaries, nsteps, taskStep,
                   inflight0, stepChans, history>>

\* The while loop ends with done empty: no finished future had raised.
DoneEmpty ==
    /\ pc = "popdone"
    /\ {p \in done : task[p] = "failed"} = {}
    /\ done' = {}
    /\ pc' = "inflight"
    /\ UNCHANGED <<teardowns, latest, config, channels, next_tasks, step, pending_writes, task,
                   inflight, outcome, exc, errStep, yielded, applied,
                   updateLog, boundaries, nsteps, taskStep, inflight0,
                   stepChans, history>>

\* Future.cancel(): a future not yet started becomes cancelled and never
\* runs; a running thread is left alone; a running asyncio task is sent
\* CancelledError when it next resumes (see TaskCancelled).
Cancel(t) ==
    /\ task' = [task EXCEPT ![t] = IF @ = "queued" THEN "cancelled" ELSE @]
    /\ cancelReq' = cancelReq \cup {t}

\* while inflight: inflight.pop().cancel()
CancelLoop(at) ==
    /\ pc = at
    /\ inflight # {}
    /\ \E t \in inflight :
          /\ inflight' = inflight \ {t}
          /\ Cancel(t)
    /\ UNCHANGED <<teardowns, latest, config, channels, next_tasks, step, pending_writes, done,
                   pc, outcome, exc, errStep, yielded, applied, updateLog,
                   boundaries, nsteps, taskStep, inflight0, stepChans,
                   firstFailed, seedReady, lastEmit>>

CancelForException == CancelLoop("cancel_exc")

CancelForTimeout == CancelLoop("cancel_timeout")

\* A loop that applies the buffered writes before it raises.
RaiseAfterApplying ==
    /\ pc = "cancel_exc"
    /\ inflight = {}
    /\ pc' = LeaveScopes
    /\ outcome' = "raised"
    /\ channels' = ApplyWritesAndPrepareNextTasks(channels, pending_writes).chs
    /\ UNCHANGED <<teardowns, latest, config, next_tasks, step, pending_writes,
                   task, done, inflight, exc, errStep, yielded, applied,
                   updateLog, boundaries, nsteps, taskStep, inflight0,
                   stepChans, history>>

\* raise exc
RaiseException ==
    /\ pc = "cancel_exc"
    /\ inflight = {}
    /\ pc' = LeaveScopes
    /\ outcome' = "raised"
    /\ UNCHANGED <<teardowns, latest, config, channels, next_tasks, step, pending_writes, task,
                   done, inflight, exc, errStep, yielded, applied, updateLog,
                   boundaries, nsteps, taskStep, inflight0, stepChans,
                   history>>

\* A loop that does not look at inflight after the wait.
StepTimedOutIgnored == FALSE

\* if inflight: a future was left unfinished, so the wait timed out.
StepTimedOut == inflight # {}

\* if inflight: ... the step timed out
InflightLeft ==
    /\ pc = "inflight"
    /\ StepTimedOut
    /\ pc' = "cancel_timeout"
    /\ UNCHANGED <<teardowns, latest, config, channels, next_tasks, step, pending_writes, task,
                   done, inflight, outcome, exc, errStep, yielded, applied,
                   updateLog, boundaries, nsteps, taskStep, inflight0,
                   stepChans, history>>

\* A message that counts the steps from one.
TimeoutStepFromOne == step + 1

\* The step named in TimeoutError(f"Timed out at step {step}").
TimeoutStep == step

\* raise TimeoutError(f"Timed out at step {step}")
RaiseTimeout ==
    /\ pc = "cancel_timeout"
    /\ inflight = {}
    /\ pc' = LeaveScopes
    /\ outcome' = "TimeoutError"
    /\ errStep' = TimeoutStep
    /\ UNCHANGED <<teardowns, latest, config, channels, next_tasks, step, pending_writes, task,
                   done, inflight, exc, yielded, applied, updateLog,
                   boundaries, nsteps, taskStep, inflight0, stepChans,
                   history>>

\* next_tasks = _apply_writes_and_prepare_next_tasks(processes, channels,
\*                                                   pending_writes)
ApplyWrites ==
    /\ pc = "inflight"
    /\ ~StepTimedOut
    /\ LET r == ApplyWritesAndPrepareNextTasks(channels, pending_writes)
       IN /\ channels' = r.chs
          /\ next_tasks' = r.tasks
          /\ updateLog' = r.log
    /\ applied' = pending_writes
    /\ boundaries' = boundaries + 1
    /\ pc' = "emit"
    /\ UNCHANGED <<teardowns, latest, config, step, pending_writes, task, done, inflight, outcome,
                   exc, errStep, yielded, nsteps, taskStep, inflight0,
                   stepChans, history>>

\* any(chan is self.output for chan, _ in pending_writes)
OutputWritten(writes) == \E i \in 1..Len(writes) : writes[i].obj

\* {c for c, _ in pending_writes if c in self.output}
OutputsUpdated(writes) ==
    {writes[i].chan : i \in 1..Len(writes)} \cap self_output.names

\* The value the step yields, as a sequence of zero or one outputs.
StepOutput(writes, chs) ==
    IF self_output.isStr
    THEN IF OutputWritten(writes) THEN <<chs["out"]>> ELSE <<>>
    ELSE IF OutputsUpdated(writes) # {}
         THEN << {<<c, chs[c]>> : c \in OutputsUpdated(writes)} >>
         ELSE <<>>

\* An invoke that keeps the first chunk it was given.
InvokeLatestFirst(cur, chunks) ==
    IF cur # <<>> \/ chunks = <<>> THEN cur ELSE <<chunks[1]>>

\* invoke / ainvoke: for chunk in self.stream(...): latest = chunk
\* chunks holds what the generator yields at this point, none or one chunk.
InvokeLatest(cur, chunks) ==
    IF chunks = <<>> THEN cur ELSE <<chunks[Len(chunks)]>>

\* if any write to output channel in this step, yield current value
Emit ==
    /\ pc = "emit"
    /\ yielded' = yielded \o StepOutput(pending_writes, channels)
    /\ lastEmit' = StepOutput(pending_writes, channels)
    /\ latest' = InvokeLatest(latest, StepOutput(pending_writes, channels))
    /\ pc' = "halt"
    /\ UNCHANGED <<teardowns, config, channels, next_tasks, step, pending_writes, task,
                   done, inflight, outcome, exc, errStep, applied, updateLog,
                   boundaries, nsteps, taskStep, inflight0, stepChans,
                   firstFailed, cancelReq, seedReady>>

\* if not next_tasks: break
Break ==
    /\ pc = "halt"
    /\ next_tasks = <<>>
    /\ pc' = LeaveScopes
    /\ outcome' = "returned"
    /\ UNCHANGED <<teardowns, latest, config, channels, next_tasks, step, pending_writes, task,
                   done, inflight, exc, errStep, yielded, applied, updateLog,
                   boundaries, nsteps, taskStep, inflight0, stepChans,
                   history>>

\* The for loop takes the next value of the range.
NextStep ==
    /\ pc = "halt"
    /\ next_tasks # <<>>
    /\ step' = step + 1
    /\ pc' = "loop"
    /\ UNCHANGED <<teardowns, latest, config, channels, next_tasks, pending_writes, task, done,
                   inflight, outcome, exc, errStep, yielded, applied,
                   updateLog, boundaries, nsteps, taskStep, inflight0,
                   stepChans, history>>

\* The executor's scope ends with shutdown(wait=True): it returns once every
\* work item that was not cancelled has run to its end.
ExitExecutor ==
    /\ pc = "exit_executor"
    /\ \A t \in Procs : task[t] \notin {"queued", "running"}
    /\ pc' = "exit_channels"
    /\ UNCHANGED <<teardowns, latest, config, channels, next_tasks, step,
                   pending_writes, task, done, inflight, outcome, exc, errStep,
                   yielded, applied, updateLog, boundaries, nsteps, taskStep,
                   inflight0, stepChans, history>>

\* ChannelsManager.__exit__ / AsyncChannelsManager.__aexit__: the registry is
\* torn down, and the return value or the exception reaches the caller.
ExitChannels ==
    /\ pc = "exit_channels"
    /\ teardowns' = teardowns + 1
    /\ pc' = "done"
    /\ UNCHANGED <<latest, config, channels, next_tasks, step, pending_writes,
                   task, done, inflight, outcome, exc, errStep, yielded,
                   applied, updateLog, boundaries, nsteps, taskStep, inflight0,
                   stepChans, history>>

\* ------------------------------------------------------------------ tasks
\* The asyncio tasks run on the coordinator's event loop: only while the
\* coordinator is suspended in `await asyncio.wait`, or after it has left.
\* A pool thread runs at any time.
MayRun == flavor = "thread" \/ pc \in {"wait", "done"}

\* A worker of the pool is free.
WorkerFree == Cardinality({p \in Procs : task[p] = "running"}) < max_workers

coordinator == <<config, channels, next_tasks, step, done, inflight, pc,
                 outcome, exc, errStep, yielded, applied, updateLog,
                 boundaries, nsteps, taskStep, inflight0, stepChans>>

\* A worker takes the queued call: proc.invoke begins.
TaskStart(t) ==
    /\ flavor = "thread"
    /\ task[t] = "queued"
    /\ WorkerFree
    /\ task' = [task EXCEPT ![t] = "running"]
    /\ UNCHANGED <<teardowns, latest, coordinator, pending_writes, history>>

\* CONFIG_KEY_SEND: pending_writes.extend
send(writes, w) == Append(writes, w)

\* A send that reduces the write into its channel at once.
TaskSendApplied(t) ==
    /\ MayRun
    /\ pc = "wait"
    /\ task[t] = "running"
    /\ Len(pending_writes) < MaxWrites
    /\ \E w \in processes[t].sink :
          /\ pending_writes' = send(pending_writes, w)
          /\ channels' = IF w.chan \in Registry
                          THEN [channels EXCEPT ![w.chan] = Update(w.chan, @, <<w.val>>)]
                          ELSE channels
    /\ UNCHANGED <<teardowns, latest, config, next_tasks, step, done, inflight, pc, outcome, exc,
                   errStep, yielded, applied, updateLog, boundaries, nsteps,
                   taskStep, inflight0, stepChans, task, history>>

\* Once wait has returned with a task unfinished the run is leaving: the
\* deque is never read again, and what is sent to it then is not kept.
TaskSend(t) ==
    /\ MayRun
    /\ pc = "wait"
    /\ task[t] = "running"
    /\ Len(pending_writes) < MaxWrites
    /\ \E w \in processes[t].sink : pending_writes' = send(pending_writes, w)
    /\ UNCHANGED <<teardowns, latest, coordinator, task, history>>

\* CONFIG_KEY_READ: channels[chan].get(), or None on EmptyChannelError
\* (the empty sequence stands for the None of an empty channel).
read(chan) == channels[chan]

\* The process returns.
TaskReturn(t) ==
    /\ MayRun
    /\ task[t] = "running"
    /\ task' = [task EXCEPT ![t] = "ok"]
    /\ UNCHANGED <<teardowns, latest, coordinator, pending_writes, history>>

\* The process raises.
TaskRaise(t) ==
    /\ MayRun
    /\ task[t] = "running"
    /\ task' = [task EXCEPT ![t] = "failed"]
    /\ firstFailed' = IF firstFailed = 0 THEN t ELSE firstFailed
    /\ UNCHANGED <<teardowns, latest, coordinator, pending_writes, cancelReq, seedReady, lastEmit>>

\* A running asyncio task whose cancel() was called ends with CancelledError.
TaskCancelled(t) ==
    /\ MayRun
    /\ flavor = "async"
    /\ task[t] = "running"
    /\ t \in cancelReq
    /\ task' = [task EXCEPT ![t] = "cancelled"]
    /\ UNCHANGED <<teardowns, latest, coordinator, pending_writes, history>>

Next ==
    \/ Seed
    \/ Submit
    \/ SubmitNothing
    \/ Exhaust
    \/ WaitReturns
    \/ PopDone
    \/ DoneEmpty
    \/ CancelForException
    \/ RaiseException
    \/ InflightLeft
    \/ CancelForTimeout
    \/ RaiseTimeout
    \/ ApplyWrites
    \/ Emit
    \/ Break
    \/ NextStep
    \/ CallerCancelled
    \/ ExitExecutor
    \/ ExitChannels
    \/ \E t \in Procs : TaskStart(t)
    \/ \E t \in Procs : TaskSend(t)
    \/ \E t \in Procs : TaskReturn(t)
    \/ \E t \in Procs : TaskRaise(t)
    \/ \E t \in Procs : TaskCancelled(t)

Spec == Init /\ [][Next]_vars

\* The run keeps going while something can happen: the coordinator is
\* scheduled, the pool's workers and the event loop run the tasks, and the
\* user processes come to an end.
FairSpec == Spec /\ WF_vars(Next)

\* ================================================================ claims
\* The planner's latest call is still the latest thing that touched
\* next_tasks, applied and updateLog.
AtBoundary ==
    \/ pc \in {"loop", "emit", "halt"}
    \/ /\ pc \in {"exit_executor", "exit_channels", "done"}
       /\ outcome \in {"returned", "ValueError"}

WrittenIn(ws, c) == \E i \in 1..Len(ws) : ws[i].chan = c

\* The values written to c, in the order of the writes.
RECURSIVE ValsFor(_, _)
ValsFor(ws, c) ==
    IF ws = <<>> THEN <<>>
    ELSE IF Head(ws).chan = c THEN <<Head(ws).val>> \o ValsFor(Tail(ws), c)
         ELSE ValsFor(Tail(ws), c)

\* What a channel that held prev holds after one update with these writes.
Reduced(c, prev, vs) ==
    IF c = "mid" THEN vs
    ELSE IF c = "out" THEN <<Sum(prev) + Sum(vs)>>
    ELSE <<vs[Len(vs)]>>

TaskAlive == \E t \in Procs : task[t] \in {"queued", "running"}

\* C1. Readiness: after every planner call (the seeding one included) a
\* process is in next_tasks if and only if one of the channels it subscribes
\* to was written by the writes just applied and every channel it subscribes
\* to is non-empty; a process none of whose channels was written is not
\* scheduled even when all its channels hold values.
C1_Readiness ==
    AtBoundary =>
        \A p \in Procs :
            (p \in Scheduled) <=>
                /\ \E c \in Subscribed(p) : WrittenIn(applied, c)
                /\ \A c \in Subscribed(p) : channels[c] # <<>>

\* A boundary after a step at which a process with every channel
\* initialized is left out because none was written, while another runs.
C1_Witness ==
    /\ pc = "halt"
    /\ \E p \in Procs :
          /\ \A c \in Subscribed(p) : channels[c] # <<>>
          /\ \A c \in Subscribed(p) : ~WrittenIn(applied, c)
          /\ p \notin Scheduled
    /\ Scheduled # {}

\* C2. Write-visibility lag: while the tasks of a step exist, the injected
\* read and the task inputs show the channels as they were when the step
\* was submitted, whatever pending_writes holds; once the step's planner
\* call has run, read shows every write of the step to a registered channel
\* reduced into it, and the inputs of the next tasks are built from those
\* values, which is what the next step's tasks then see.
C2_VisibilityLag ==
    /\ pc \in {"wait", "popdone", "inflight", "cancel_exc", "cancel_timeout"} =>
          /\ \A c \in Registry : read(c) = stepChans[c]
          /\ \A i \in 1..Len(next_tasks) :
                next_tasks[i].input = TaskInput(stepChans, next_tasks[i].proc)
    /\ pc \in {"emit", "halt", "loop"} =>
          /\ \A c \in Registry :
                WrittenIn(applied, c) => read(c) = Reduced(c, stepChans[c], ValsFor(applied, c))
          /\ \A i \in 1..Len(next_tasks) :
                next_tasks[i].input = TaskInput(channels, next_tasks[i].proc)

\* A task of the second step runs on a channel written in the first step,
\* while a write to that channel waits in pending_writes unseen.
C2_Witness ==
    /\ pc = "wait"
    /\ taskStep = 1
    /\ task[3] = "running"
    /\ \E i \in 1..Len(pending_writes) :
          /\ pending_writes[i].chan = "mid"
          /\ read("mid") # <<pending_writes[i].val>>
    /\ read("mid") # <<>>

\* C3. At a step boundary each registered channel written by the step gets
\* exactly one update call, carrying all the step's writes to it in the
\* order they were appended; a channel no write targeted gets none, and no
\* update is made for an unregistered name.
C3_OneUpdatePerChannel ==
    AtBoundary =>
        /\ \A c \in Registry :
              LET calls == SelectSeq(updateLog, LAMBDA u : u.chan = c)
              IN IF WrittenIn(applied, c)
                 THEN Len(calls) = 1 /\ calls[1].vals = ValsFor(applied, c)
                 ELSE calls = <<>>
        /\ \A i \in 1..Len(updateLog) : updateLog[i].chan \in Registry

\* A step boundary that applied two different writes to one channel.
C3_Witness ==
    /\ pc = "emit"
    /\ boundaries >= 2
    /\ \E c \in Registry :
          /\ Len(ValsFor(applied, c)) = 2
          /\ ValsFor(applied, c)[1] # ValsFor(applied, c)[2]
          /\ Len(updateLog) = 1

\* C4. Isolation within a step: a planner call (the only place that calls
\* update) happens only when no task is queued or running and every task of
\* the step has returned without failure, and the channels change in no
\* other step; so while a task is alive the channels are those it was
\* submitted with.
C4_Isolation ==
    /\ [](TaskAlive => channels = stepChans)
    /\ [][ (channels' # channels \/ boundaries' # boundaries) =>
              /\ boundaries' = boundaries + 1
              /\ \A t \in Procs : task[t] \in {"none", "ok"}
              /\ \A t \in Scheduled : pc # "seed" => task[t] = "ok" ]_vars

\* Two tasks of one step have returned and the planner has changed a channel.
C4_Witness ==
    /\ pc = "emit"
    /\ boundaries >= 2
    /\ channels # stepChans
    /\ Cardinality({t \in Procs : task[t] = "ok"}) >= 2

\* C5. Output emission: a step that completes yields exactly when one of
\* its buffered writes targeted an output channel, and yields at most once;
\* the value is the output channel's value, or the mapping of the output
\* names written in the step to their values, read after the step's writes
\* were applied.
C5_EmissionClaim ==
    pc = "halt" =>
        LET written == {c \in self_output.names : WrittenIn(pending_writes, c)}
        IN /\ Len(lastEmit) <= 1
           /\ (lastEmit # <<>>) <=> (written # {})
           /\ lastEmit # <<>> =>
                 IF self_output.isStr
                 THEN lastEmit[1] = channels["out"]
                 ELSE lastEmit[1] = {<<c, channels[c]>> : c \in written}

\* What the code does keep of C5: the same statement with "targeted an
\* output channel" read, in single-sink mode, as "by the str object given
\* as output=".
EmissionByIdentity ==
    pc = "halt" =>
        LET written == {c \in self_output.names :
                           \E i \in 1..Len(pending_writes) :
                               /\ pending_writes[i].chan = c
                               /\ self_output.isStr => pending_writes[i].obj}
        IN /\ Len(lastEmit) <= 1
           /\ (lastEmit # <<>>) <=> (written # {})
           /\ lastEmit # <<>> =>
                 IF self_output.isStr
                 THEN lastEmit[1] = channels["out"]
                 ELSE lastEmit[1] = {<<c, channels[c]>> : c \in written}

\* C6. Recursion-limit boundedness: the loop never begins more iterations
\* than recursion_limit, and the step number given to the tasks lies in
\* [0, recursion_limit).
C6_Bounded ==
    /\ nsteps <= recursion_limit
    /\ \A t \in Procs :
          task[t] # "none" => (0 <= taskStep /\ taskStep < recursion_limit)

\* The run used up the largest limit with processes still ready.
C6_Witness ==
    /\ pc = "done"
    /\ outcome = "returned"
    /\ recursion_limit = MaxLimit
    /\ nsteps = recursion_limit
    /\ next_tasks # <<>>
    /\ taskStep = recursion_limit - 1

\* C7. Halting: when the planner's first call returns no task, the run
\* invokes no process, yields nothing and ends normally; and a run that has
\* left while the planner's latest call returned no task ended normally.
C7_HaltingClaim ==
    /\ (pc # "seed" /\ ~seedReady) =>
          /\ \A t \in Procs : task[t] = "none"
          /\ yielded = <<>>
          /\ outcome \in {"running", "returned"}
    /\ (pc = "done" /\ AtBoundary /\ next_tasks = <<>>) => outcome = "returned"

\* C8. First-failure propagation: the exception raised to the caller is that
\* of the task that failed first in the step.
C8_FirstFailureClaim ==
    (pc = "done" /\ outcome = "raised") => exc = firstFailed

\* C9. Cancellation on first failure: once the coordinator has found a
\* failed task, no queued task of the step starts.
C9_NoStartAfterFailureClaim ==
    [][ pc = "cancel_exc" =>
          \A t \in Procs : ~(task[t] = "queued" /\ task'[t] = "running") ]_vars

\* C10. Timeout: when wait returns with a future unfinished and no finished
\* future failed, the run goes to no planner call; it ends with a
\* TimeoutError that names the index of the current step (the first being
\* 0), after cancel was called on every future that wait returned unfinished.
C10_Timeout ==
    LET timedOut == /\ inflight0 # {}
                    /\ \A t \in Scheduled \ inflight0 : task[t] # "failed"
    IN /\ timedOut =>
             /\ pc \in {"popdone", "inflight", "cancel_timeout",
                       "exit_executor", "exit_channels", "done"}
             /\ pc \in {"exit_executor", "exit_channels"} =>
                   outcome = "TimeoutError"
             /\ pc = "done" =>
                   /\ outcome = "TimeoutError"
                   /\ errStep = nsteps - 1
                   /\ inflight0 \subseteq cancelReq
       /\ outcome = "TimeoutError" => timedOut

\* The second step timed out with two tasks unfinished.
C10_Witness ==
    /\ pc = "done"
    /\ outcome = "TimeoutError"
    /\ errStep = 1
    /\ Cardinality(inflight0) >= 2
    /\ inflight0 \subseteq cancelReq

C12_CancelPropagationClaim ==
    (flavor = "async" /\ outcome = "CancelledError" /\ teardowns = 1) =>
        \A t \in Procs : task[t] = "running" => t \in cancelReq

\* C13. Best-effort cancellation: once a task's failure has been raised in
\* the coordinator, nothing stands between the raise and the caller; the
\* scopes are left whether or not a peer task of the step is still running,
\* in both flavors.
C13_NoWaitForPeersClaim ==
    (outcome = "raised" /\ pc \in {"exit_executor", "exit_channels"}) =>
        ENABLED (ExitExecutor \/ ExitChannels)

\* What the code does keep of C13: the asyncio flavor has no scope that
\* waits, and the thread flavor's caller gets the failure only once no
\* thread of the step runs.
PeersJoinedInThreadFlavor ==
    /\ (flavor = "async" /\ outcome = "raised"
            /\ pc \in {"exit_executor", "exit_channels"}) =>
          ENABLED (ExitExecutor \/ ExitChannels)
    /\ (flavor = "thread" /\ pc = "done") =>
          \A t \in Procs : task[t] \notin {"queued", "running"}

\* C14. invoke and ainvoke return the last element of the sequence that
\* stream and astream yield on the same run, and None when it yields
\* nothing; they consume the one generator of the step loop and add nothing.
C14_InvokeIsLastOfStream ==
    /\ latest = IF yielded = <<>> THEN <<>> ELSE <<yielded[Len(yielded)]>>
    /\ (pc = "done" /\ outcome = "returned" /\ nsteps = 0) => latest = <<>>

\* A run that yielded two different chunks has returned.
C14_Witness ==
    /\ pc = "done"
    /\ outcome = "returned"
    /\ Len(yielded) = 2
    /\ yielded[1] # yielded[2]
    /\ latest = <<yielded[2]>>

\* The writes whose channel is registered, in their order.
Routed(ws) == SelectSeq(ws, LAMBDA w : w.chan \in Registry)

\* C15. Unrouted writes are non-fatal: a planner call whose writes name an
\* unregistered channel leaves the channels, the next tasks and the step's
\* output as the same call without those writes would, makes no update call
\* for the name, and the run goes on to the emission and the next step.
C15_UnroutedDropped ==
    /\ pc \in {"emit", "halt"} \/ (pc = "loop" /\ boundaries = 1) =>
          LET r == ApplyWritesAndPrepareNextTasks(stepChans, Routed(applied))
          IN /\ channels = r.chs
             /\ next_tasks = r.tasks
             /\ updateLog = r.log
    /\ pc = "halt" =>
          /\ lastEmit = StepOutput(Routed(pending_writes), channels)
          /\ outcome = "running"

\* A step wrote to an unregistered name and then to a registered channel;
\* the run went on with the process that the second write woke.
C15_Witness ==
    /\ pc = "halt"
    /\ outcome = "running"
    /\ Len(applied) = 2
    /\ applied[1].chan = "ghost"
    /\ applied[2].chan = "mid"
    /\ channels["mid"] = <<applied[2].val>>
    /\ stepChans["mid"] = <<>>
    /\ 3 \in Scheduled

\* The loop has run out of its range with processes ready.
Exhausted ==
    /\ next_tasks # <<>>
    /\ \/ pc = "loop" /\ ~InRange(step)
       \/ /\ pc \in {"exit_executor", "exit_channels", "done"}
          /\ AtBoundary

\* C16. Recursion exhaustion: when the range is used up with processes still
\* ready, the run has made recursion_limit iterations, it ends as a normal
\* return, and from there on nothing is yielded, no channel changes and no
\* task is created, so the ready processes are never invoked. With
\* recursion_limit = 0 the seed writes are applied, no task exists and
\* nothing is yielded.
C16_Exhaustion ==
    /\ [](Exhausted =>
             /\ nsteps = recursion_limit
             /\ outcome \in {"running", "returned"}
             /\ pc = "done" => outcome = "returned"
             /\ \A t \in Procs : task[t] \in {"none", "ok"})
    /\ [][ Exhausted =>
              /\ Exhausted'
              /\ UNCHANGED <<yielded, latest, channels, next_tasks, task,
                             nsteps>> ]_vars
    /\ []((recursion_limit = 0 /\ pc # "seed") =>
             /\ \A t \in Procs : task[t] = "none"
             /\ yielded = <<>>
             /\ outcome \in {"running", "returned"}
             /\ \A c \in Registry :
                   channels[c] = IF WrittenIn(applied, c)
                                 THEN Reduced(c, <<>>, ValsFor(applied, c))
                                 ELSE <<>>)

\* The run returned after its only iteration, which yielded, with a
\* process ready that is never run.
C16_Witness ==
    /\ pc = "done"
    /\ outcome = "returned"
    /\ recursion_limit = 1
    /\ nsteps = 1
    /\ yielded # <<>>
    /\ 3 \in Scheduled
    /\ task[3] = "none"

\* How a run ends as far as the steps decide it: with the failure of a
\* task, with the timeout of a step, and else with a normal return.
StepOutcome ==
    IF exc # 0 THEN "raised"
    ELSE IF errStep # -1 THEN "TimeoutError"
    ELSE "returned"

\* The thread flavor ends as the steps decide.
ThreadFlavorOutcome ==
    (flavor = "thread" /\ pc = "done") => outcome = StepOutcome

\* C17. The two flavors have the same step semantics: a run that its
\* caller does not cancel ends as its steps decide, in the asyncio flavor
\* as in the thread flavor; a run none of whose tasks failed and none of
\* whose steps timed out returns normally.
C17_FlavorsAgreeClaim ==
    (pc = "done" /\ outcome # "CancelledError") => outcome = StepOutcome

\* The orders in which n writes can have been appended.
Perms(n) == {f \in [1..n -> 1..n] : \A i, j \in 1..n : i # j => f[i] # f[j]}

Reorder(ws, f) == [i \in 1..Len(ws) |-> ws[f[i]]]

\* The reduction of c does not depend on the order of the writes of one
\* update call.
Commutative(c) ==
    \A a, b \in Vals : \A cur \in {<<>>} \cup {<<v>> : v \in Vals} :
        Update(c, cur, <<a, b>>) = Update(c, cur, <<b, a>>)

\* C18. Determinism modulo reductions: had the writes of a step been
\* appended in another order, one that changes the order of the writes only
\* for channels whose reduction is commutative, the planner call would have
\* left the same channel values and the same next tasks with the same
\* inputs, and the step would have yielded the same output. In a topology
\* all of whose channels are commutative this covers every order in which
\* the tasks complete and append.
C18_OrderIndependent ==
    pc \in {"emit", "halt"} =>
        \A f \in Perms(Len(applied)) :
            LET ws == Reorder(applied, f)
                r == ApplyWritesAndPrepareNextTasks(stepChans, ws)
            IN (\A c \in Registry :
                    Commutative(c) \/ ValsFor(ws, c) = ValsFor(applied, c)) =>
                  /\ r.chs = channels
                  /\ r.tasks = next_tasks
                  /\ StepOutput(ws, r.chs) = StepOutput(applied, channels)
                  /\ pc = "halt" => lastEmit = StepOutput(ws, r.chs)

\* Two tasks of one step wrote different values to the commutative channel,
\* the third process's write first, and both were reduced into it.
C18_Witness ==
    /\ pc = "halt"
    /\ Commutative("out")
    /\ task[2] = "ok"
    /\ task[3] = "ok"
    /\ Len(applied) = 2
    /\ applied[1] = [chan |-> "out", val |-> 2, obj |-> FALSE]
    /\ applied[2] = [chan |-> "out", val |-> 1, obj |-> TRUE]
    /\ channels["out"] = <<Sum(stepChans["out"]) + 3>>

\* C19. A step that aborts leaves the channels untouched: when a step ends
\* with a task's failure or with a timeout, no planner call was made for
\* it, so every channel holds what it held when the step's tasks were
\* submitted whatever the step's tasks had sent, nothing was yielded for
\* the step, and the only tasks ever created since are those of that step.
C19_AbortLeavesChannels ==
    outcome \in {"raised", "TimeoutError"} =>
        /\ channels = stepChans
        /\ applied = <<>>
        /\ updateLog = <<>>
        /\ boundaries = taskStep + 1
        /\ lastEmit = <<>>
        /\ nsteps = taskStep + 1
        /\ \A t \in Procs : task[t] # "none" <=> t \in Scheduled

\* The failure of one task reached the caller; a peer of the step had
\* returned after sending a write to a registered channel, which was dropped.
C19_Witness ==
    /\ pc = "done"
    /\ outcome = "raised"
    /\ exc = 2
    /\ task[3] = "ok"
    /\ pending_writes = <<[chan |-> "in", val |-> 1, obj |-> FALSE]>>
    /\ channels["in"] = <<2>>

\* A future that wait returned in done had raised.
FailedAtJoin == \E t \in Scheduled \ inflight0 : task[t] = "failed"

\* C20. A task failure takes precedence over a timeout: when wait returns
\* with a failed future in done, the run raises the exception of a failed
\* future of done and no TimeoutError, also when futures are left unfinished;
\* the timeout branch, like the planner call, is reached only when no
\* future of done had failed, and a TimeoutError is raised only then and
\* with a future left unfinished.
C20_FailureFirst ==
    /\ pc \in {"inflight", "cancel_timeout", "emit", "halt"} => ~FailedAtJoin
    /\ (pc = "cancel_exc" \/ outcome = "raised") =>
          /\ exc \in Scheduled \ inflight0
          /\ task[exc] = "failed"
          /\ errStep = -1
    /\ outcome = "TimeoutError" => (~FailedAtJoin /\ inflight0 # {})
    /\ (FailedAtJoin /\ pc \in {"exit_executor", "exit_channels", "done"}
            /\ outcome # "CancelledError") => outcome = "raised"

\* A run with a step timeout raised a task's exception while two futures
\* of the step were unfinished.
C20_Witness ==
    /\ pc = "done"
    /\ step_timeout
    /\ outcome = "raised"
    /\ exc = 1
    /\ Cardinality(inflight0) = 2
    /\ inflight0 \subseteq cancelReq

====
